---- MODULE Spec2Model ----
(***************************************************************************)
(* A model of the mmappet read-only column store: DType (dtype.rs),        *)
(* Schema (schema.rs), Column (column.rs) and Dataset (dataset.rs).        *)
(*                                                                         *)
(* Text is modelled at the character level: a string is a sequence of     *)
(* one-character strings, so trimming, lower-casing, line splitting and    *)
(* whitespace tokenising are computed the way the code computes them.      *)
(***************************************************************************)
EXTENDS Integers, Sequences, FiniteSets, TLC

VARIABLES
    s,          \* DType::from_str: the argument
    dres,       \* DType::from_str: the returned Result
    content,    \* Schema::parse: the schema text
    sres,       \* Schema::parse: the returned Result
    squery,     \* Schema accessors: the last call and what it returned
    cfile,      \* Column::open: the file behind the path
    cdtype,     \* Column::open: the dtype argument
    cres,       \* Column::open: the returned Result
    cview,      \* Column accessors: the last call and what it returned
    dir,        \* Dataset::open: the directory (schema.txt and the column files)
    pc,         \* Dataset::open: position in the function
    schema,     \* Dataset::open: local `schema`
    columns,    \* Dataset::open: local `columns` (name -> Column)
    row_count,  \* Dataset::open: local `row_count` (Option<usize>)
    next_col,   \* Dataset::open: position of the `for col_def in schema.columns()` iterator
    ret,        \* Dataset::open: the returned Result
    last        \* Dataset accessors: the last call and what it returned

vars == <<s, dres, content, sres, squery, cfile, cdtype, cres, cview,
          dir, pc, schema, columns, row_count, next_col, ret, last>>

dtVars == <<s, dres>>
scVars == <<content, sres, squery>>
coVars == <<cfile, cdtype, cres, cview>>
dsVars == <<dir, pc, schema, columns, row_count, next_col, ret, last>>

-----------------------------------------------------------------------------
(* Bounds of the model.                                                    *)

\* Whitespace characters put on each side of a type name given to from_str.
MaxPad == 1
\* Lines of a schema text given to Schema::parse.
MaxLines == 3
\* Byte length of a file given to Column::open.
MaxFileLen == 17
\* Columns (schema lines and column files) of a dataset directory.
MaxCols == 3
\* Byte length of a column file of a dataset directory.
MaxColBytes == 2

-----------------------------------------------------------------------------
(* Results and options.                                                    *)

Ok(v) == [ok |-> TRUE, val |-> v]
Err(e) == [ok |-> FALSE, err |-> e]
Some(v) == [some |-> TRUE, val |-> v]
None == [some |-> FALSE]

\* The value of a result variable before the call has returned.
Pending == [pending |-> TRUE]

IsOk(r) == r # Pending /\ r.ok
IsErr(r) == r # Pending /\ ~r.ok
IsErrKind(r, k) == IsErr(r) /\ r.err.kind = k

-----------------------------------------------------------------------------
(* Characters and strings.                                                 *)

\* char::is_whitespace on the characters of the model's alphabet.
IsWhitespace(c) == c \in {" ", "\t", "\n", "\r"}

UpperOf ==
    [c \in {"a", "b", "d", "e", "f", "i", "l", "n", "o", "s", "t", "u", "z"} |->
        CASE c = "a" -> "A" [] c = "b" -> "B" [] c = "d" -> "D" [] c = "e" -> "E"
          [] c = "f" -> "F" [] c = "i" -> "I" [] c = "l" -> "L" [] c = "n" -> "N"
          [] c = "o" -> "O" [] c = "s" -> "S" [] c = "t" -> "T" [] c = "u" -> "U"
          [] c = "z" -> "Z"]

\* char::to_lowercase on the characters of the model's alphabet.
LowerChar(c) ==
    IF \E l \in DOMAIN UpperOf : UpperOf[l] = c
    THEN CHOOSE l \in DOMAIN UpperOf : UpperOf[l] = c
    ELSE c

\* str::to_lowercase
to_lowercase(str) == [k \in 1..Len(str) |-> LowerChar(str[k])]

RECURSIVE trim_start(_)
trim_start(str) ==
    IF str # <<>> /\ IsWhitespace(Head(str)) THEN trim_start(Tail(str)) ELSE str

RECURSIVE trim_end(_)
trim_end(str) ==
    IF str # <<>> /\ IsWhitespace(str[Len(str)])
    THEN trim_end(SubSeq(str, 1, Len(str) - 1))
    ELSE str

\* str::trim
trim(str) == trim_end(trim_start(str))

-----------------------------------------------------------------------------
(* dtype.rs                                                                *)

DType == {"UInt8", "Int8", "UInt16", "Int16", "UInt32", "Int32", "UInt64",
          "Int64", "Float32", "Float64", "Bool"}

size_bytes(d) ==
    CASE d \in {"UInt8", "Int8", "Bool"} -> 1
      [] d \in {"UInt16", "Int16"} -> 2
      [] d \in {"UInt32", "Int32", "Float32"} -> 4
      [] d \in {"UInt64", "Int64", "Float64"} -> 8

\* The arms of from_str's match, on the normalised text `key` of the argument `str`.
match_name(key, str) ==
    IF key \in {<<"u", "i", "n", "t", "8">>, <<"u", "8">>} THEN Ok("UInt8")
    ELSE IF key \in {<<"i", "n", "t", "8">>, <<"i", "8">>} THEN Ok("Int8")
    ELSE IF key \in {<<"u", "i", "n", "t", "1", "6">>, <<"u", "1", "6">>} THEN Ok("UInt16")
    ELSE IF key \in {<<"i", "n", "t", "1", "6">>, <<"i", "1", "6">>} THEN Ok("Int16")
    ELSE IF key \in {<<"u", "i", "n", "t", "3", "2">>, <<"u", "3", "2">>} THEN Ok("UInt32")
    ELSE IF key \in {<<"i", "n", "t", "3", "2">>, <<"i", "3", "2">>} THEN Ok("Int32")
    ELSE IF key \in {<<"u", "i", "n", "t", "6", "4">>, <<"u", "6", "4">>, <<"s", "i", "z", "e", "_", "t">>} THEN Ok("UInt64")
    ELSE IF key \in {<<"i", "n", "t", "6", "4">>, <<"i", "6", "4">>} THEN Ok("Int64")
    ELSE IF key \in {<<"f", "l", "o", "a", "t", "3", "2">>, <<"f", "3", "2">>} THEN Ok("Float32")
    ELSE IF key \in {<<"f", "l", "o", "a", "t", "6", "4">>, <<"f", "6", "4">>, <<"d", "o", "u", "b", "l", "e">>} THEN Ok("Float64")
    ELSE IF key \in {<<"b", "o", "o", "l">>, <<"b", "o", "o", "l", "e", "a", "n">>} THEN Ok("Bool")
    ELSE Err([kind |-> "UnknownDType", name |-> str])

\* A from_str that matches the trimmed text without lower-casing it.
from_str_case_sensitive(str) == match_name(trim(str), str)

from_str(str) == match_name(to_lowercase(trim(str)), str)

as_str(d) ==
    CASE d = "UInt8" -> <<"u", "i", "n", "t", "8">>
      [] d = "Int8" -> <<"i", "n", "t", "8">>
      [] d = "UInt16" -> <<"u", "i", "n", "t", "1", "6">>
      [] d = "Int16" -> <<"i", "n", "t", "1", "6">>
      [] d = "UInt32" -> <<"u", "i", "n", "t", "3", "2">>
      [] d = "Int32" -> <<"i", "n", "t", "3", "2">>
      [] d = "UInt64" -> <<"u", "i", "n", "t", "6", "4">>
      [] d = "Int64" -> <<"i", "n", "t", "6", "4">>
      [] d = "Float32" -> <<"f", "l", "o", "a", "t", "3", "2">>
      [] d = "Float64" -> <<"f", "l", "o", "a", "t", "6", "4">>
      [] d = "Bool" -> <<"b", "o", "o", "l">>

\* The native element types that implement MmappetType.
MmappetType == {"u8", "i8", "u16", "i16", "u32", "i32", "u64", "i64", "f32", "f64"}

\* A table of tags whose i64 entry repeats the tag of u64.
DTYPE_i64_as_UInt64(T) ==
    CASE T = "u8" -> "UInt8"
      [] T = "i8" -> "Int8"
      [] T = "u16" -> "UInt16"
      [] T = "i16" -> "Int16"
      [] T = "u32" -> "UInt32"
      [] T = "i32" -> "Int32"
      [] T = "u64" -> "UInt64"
      [] T = "i64" -> "UInt64"
      [] T = "f32" -> "Float32"
      [] T = "f64" -> "Float64"

\* <T as MmappetType>::DTYPE
DTYPE(T) ==
    CASE T = "u8" -> "UInt8"
      [] T = "i8" -> "Int8"
      [] T = "u16" -> "UInt16"
      [] T = "i16" -> "Int16"
      [] T = "u32" -> "UInt32"
      [] T = "i32" -> "Int32"
      [] T = "u64" -> "UInt64"
      [] T = "i64" -> "Int64"
      [] T = "f32" -> "Float32"
      [] T = "f64" -> "Float64"

-----------------------------------------------------------------------------
(* schema.rs                                                               *)

\* str::split_inclusive('\n'): the pieces of the text, each with its newline.
RECURSIVE split_inclusive(_, _)
split_inclusive(str, piece) ==
    IF str = <<>> THEN (IF piece = <<>> THEN <<>> ELSE <<piece>>)
    ELSE IF Head(str) = "\n"
         THEN <<Append(piece, "\n")>> \o split_inclusive(Tail(str), <<>>)
         ELSE split_inclusive(Tail(str), Append(piece, Head(str)))

\* What str::lines makes of one piece: the "\n" and a "\r" before it are cut.
strip_line_ending(piece) ==
    IF piece # <<>> /\ piece[Len(piece)] = "\n"
    THEN LET l == SubSeq(piece, 1, Len(piece) - 1) IN
             IF l # <<>> /\ l[Len(l)] = "\r" THEN SubSeq(l, 1, Len(l) - 1) ELSE l
    ELSE piece

\* str::lines
lines(str) ==
    LET pieces == split_inclusive(str, <<>>) IN
        [k \in 1..Len(pieces) |-> strip_line_ending(pieces[k])]

\* str::split_whitespace, collected: the maximal runs of non-whitespace.
RECURSIVE split_whitespace_from(_, _)
split_whitespace_from(str, token) ==
    IF str = <<>> THEN (IF token = <<>> THEN <<>> ELSE <<token>>)
    ELSE IF IsWhitespace(Head(str))
         THEN (IF token = <<>> THEN <<>> ELSE <<token>>)
              \o split_whitespace_from(Tail(str), <<>>)
         ELSE split_whitespace_from(Tail(str), Append(token, Head(str)))

split_whitespace(str) == split_whitespace_from(str, <<>>)

\* format!("Expected 'dtype name', got: {}", line)
format_message(line) ==
    <<"E","x","p","e","c","t","e","d"," ","'","d","t","y","p","e"," ","n","a","m","e","'",","," ","g","o","t",":"," ">>
    \o line

\* A parser that reports the line as the text holds it.
line_text_raw(raw) == raw

\* `let line = line.trim();`
line_text(raw) == trim(raw)

\* An error that carries enumerate()'s 0-based position.
SchemaParse_zero_based(line_num, line) ==
    [kind |-> "SchemaParse", line |-> line_num, message |-> format_message(line)]

\* MmappetError::SchemaParse { line: line_num + 1, message }
SchemaParse(line_num, line) ==
    [kind |-> "SchemaParse", line |-> line_num + 1, message |-> format_message(line)]

\* A duplicate check that never fires.
contains_key_never(name_to_index, name) == FALSE

\* name_to_index.contains_key(&name)
contains_key(name_to_index, name) == name \in DOMAIN name_to_index

\* An index that counts source lines, blank ones included.
column_index_by_line(cols, line_num) == line_num

\* `let index = columns.len();`
column_index(cols, line_num) == Len(cols)

\* HashMap::insert
insert(map, key, value) ==
    [k \in DOMAIN map \cup {key} |-> IF k = key THEN value ELSE map[k]]

EmptyMap == [k \in {} |-> 0]

\* The body of parse's `for (line_num, line) in content.lines().enumerate()`,
\* from position line_num on, and the Ok(Schema { .. }) after it.
RECURSIVE parse_lines(_, _, _, _)
parse_lines(ls, line_num, cols, name_to_index) ==
    IF line_num >= Len(ls)
    THEN Ok([columns |-> cols, name_to_index |-> name_to_index])
    ELSE LET line == line_text(ls[line_num + 1])
             parts == split_whitespace(line)
         IN  IF line = <<>>
             THEN parse_lines(ls, line_num + 1, cols, name_to_index)
             ELSE IF Len(parts) # 2
             THEN Err(SchemaParse(line_num, line))
             ELSE LET dtype == from_str(parts[1])
                      name == parts[2]
                      index == column_index(cols, line_num)
                  IN  IF ~dtype.ok
                      THEN dtype
                      ELSE IF contains_key(name_to_index, name)
                      THEN Err([kind |-> "DuplicateColumnName", name |-> name])
                      ELSE parse_lines(ls, line_num + 1,
                               Append(cols, [index |-> index, name |-> name,
                                             dtype |-> dtype.val]),
                               insert(name_to_index, name, index))

\* Schema::parse
parse(text) == parse_lines(lines(text), 0, <<>>, EmptyMap)

\* Schema::get
schema_get(sch, name) ==
    IF name \in DOMAIN sch.name_to_index
    THEN Some(sch.columns[sch.name_to_index[name] + 1])
    ELSE None

\* A positional lookup that counts the definitions from 1.
get_by_index_from_one(sch, index) ==
    IF 1 <= index /\ index <= Len(sch.columns) THEN Some(sch.columns[index]) ELSE None

\* Schema::get_by_index
get_by_index(sch, index) ==
    IF index < Len(sch.columns) THEN Some(sch.columns[index + 1]) ELSE None

\* Schema::len
schema_len(sch) == Len(sch.columns)

\* Schema::column_names
column_names(sch) == [k \in 1..Len(sch.columns) |-> sch.columns[k].name]

\* The file system's answer for schema.txt or a column file: absent, present
\* but not openable for reading, or a readable file of `size` bytes.
Missing == [kind |-> "missing"]
Unreadable == [kind |-> "unreadable"]
File(size) == [kind |-> "file", size |-> size]
Text(text) == [kind |-> "file", text |-> text]

\* Path::exists
exists(f) == f.kind # "missing"

\* dir.as_ref().join("schema.txt") and the file it names
schema_path(d) == [dir |-> d.path, file |-> "schema.txt"]

\* Schema::from_path
from_path(d) ==
    IF ~exists(d.schema)
    THEN Err([kind |-> "MissingSchema", path |-> d.path])
    ELSE IF d.schema.kind = "unreadable"
    THEN Err([kind |-> "Io", path |-> schema_path(d)])
    ELSE parse(d.schema.text)

-----------------------------------------------------------------------------
(* column.rs                                                               *)

\* A Column::open that takes the element count without the remainder check.
column_open_unchecked(path, f, dtype) ==
    IF f.kind # "file"
    THEN Err([kind |-> "Io", path |-> path])
    ELSE Ok([mmap |-> f.size, dtype |-> dtype, len |-> f.size \div size_bytes(dtype)])

\* Column::open. File::open fails on a file that is absent or not readable;
\* the mapping of a readable file is as long as the file. A Column is its
\* mapping (here: the mapping's byte length), its dtype and its len.
column_open(path, f, dtype) ==
    IF f.kind # "file"
    THEN Err([kind |-> "Io", path |-> path])
    ELSE LET element_size == size_bytes(dtype)
             file_size == f.size
         IN  IF file_size % element_size # 0
             THEN Err([kind |-> "InvalidFileSize", path |-> path,
                       actual |-> file_size, element_size |-> element_size])
             ELSE Ok([mmap |-> file_size, dtype |-> dtype,
                      len |-> file_size \div element_size])

\* std::mem::size_of::<T>() of the native types that implement MmappetType
size_of(T) ==
    CASE T \in {"u8", "i8"} -> 1
      [] T \in {"u16", "i16"} -> 2
      [] T \in {"u32", "i32", "f32"} -> 4
      [] T \in {"u64", "i64", "f64"} -> 8

\* bytemuck::cast_slice::<u8, T>(&self.mmap[..]): a slice of T over the bytes
cast_slice(nbytes, T) == [elem |-> T, len |-> nbytes \div size_of(T)]

\* An as_slice that hands out the bytes whatever the tag.
as_slice_unchecked(col, T) == Some(cast_slice(col.mmap, T))

\* Column::as_slice::<T>
as_slice(col, T) ==
    IF DTYPE(T) = col.dtype THEN Some(cast_slice(col.mmap, T)) ELSE None

\* The element type of the ArrayView1 each TypedArrayView variant wraps.
view_elem(variant) ==
    CASE variant = "UInt8" -> "u8"
      [] variant = "Int8" -> "i8"
      [] variant = "UInt16" -> "u16"
      [] variant = "Int16" -> "i16"
      [] variant = "UInt32" -> "u32"
      [] variant = "Int32" -> "i32"
      [] variant = "UInt64" -> "u64"
      [] variant = "Int64" -> "i64"
      [] variant = "Float32" -> "f32"
      [] variant = "Float64" -> "f64"
      [] variant = "Bool" -> "u8"

\* TypedArrayView::Variant(ArrayView1::from(cast_slice(&self.mmap[..])))
TypedArrayView(variant, nbytes) ==
    [variant |-> variant, view |-> cast_slice(nbytes, view_elem(variant))]

\* An as_typed_array whose Bool arm builds the UInt8 variant.
as_typed_array_bool_as_uint8(col) ==
    IF col.dtype = "Bool"
    THEN TypedArrayView("UInt8", col.mmap)
    ELSE TypedArrayView(col.dtype, col.mmap)

\* Column::as_typed_array: the arm of the match for each dtype
as_typed_array(col) ==
    CASE col.dtype = "UInt8" -> TypedArrayView("UInt8", col.mmap)
      [] col.dtype = "Int8" -> TypedArrayView("Int8", col.mmap)
      [] col.dtype = "UInt16" -> TypedArrayView("UInt16", col.mmap)
      [] col.dtype = "Int16" -> TypedArrayView("Int16", col.mmap)
      [] col.dtype = "UInt32" -> TypedArrayView("UInt32", col.mmap)
      [] col.dtype = "Int32" -> TypedArrayView("Int32", col.mmap)
      [] col.dtype = "UInt64" -> TypedArrayView("UInt64", col.mmap)
      [] col.dtype = "Int64" -> TypedArrayView("Int64", col.mmap)
      [] col.dtype = "Float32" -> TypedArrayView("Float32", col.mmap)
      [] col.dtype = "Float64" -> TypedArrayView("Float64", col.mmap)
      [] col.dtype = "Bool" -> TypedArrayView("Bool", col.mmap)

\* TypedArrayView::len
view_len(v) == v.view.len

\* TypedArrayView::dtype
view_dtype(v) == v.variant

\* Column::dtype
column_dtype(col) == col.dtype

\* Column::len
column_len(col) == col.len

-----------------------------------------------------------------------------
(* dataset.rs                                                              *)

\* A file name that counts the columns from 1.
bin_name_one_based(index) == <<index + 1, ".bin">>

\* format!("{}.bin", col_def.index)
bin_name(index) == <<index, ".bin">>

\* path.join(name)
join(path, name) == [dir |-> path, file |-> name]

\* The file of the directory that a joined path names.
file_at(d, name) == IF name \in DOMAIN d.files THEN d.files[name] ELSE Missing

\* A LengthMismatch with the two counts exchanged.
LengthMismatch_swapped(name, expected, actual) ==
    [kind |-> "LengthMismatch", name |-> name, expected |-> actual, actual |-> expected]

\* MmappetError::LengthMismatch { name, expected, actual }
LengthMismatch(name, expected, actual) ==
    [kind |-> "LengthMismatch", name |-> name, expected |-> expected, actual |-> actual]

\* A length check that lets every count through.
length_differs_never(len, expected) == FALSE

\* `if column.len() != expected`
length_differs(len, expected) == len # expected

\* A pass that opens the column without looking whether its file exists.
load_column_without_exists(d, col_def, cols, rc) ==
    LET col_path == join(d.path, bin_name(col_def.index))
        f == file_at(d, bin_name(col_def.index))
        column == column_open(col_path, f, col_def.dtype)
    IN  IF ~column.ok
        THEN [returns |-> TRUE, ret |-> column]
        ELSE IF rc.some /\ length_differs(column.val.len, rc.val)
        THEN [returns |-> TRUE,
              ret |-> Err(LengthMismatch(col_def.name, rc.val, column.val.len))]
        ELSE [returns |-> FALSE,
              row_count |-> IF rc.some THEN rc ELSE Some(column.val.len),
              columns |-> insert(cols, col_def.name, column.val)]

\* One pass of `for col_def in schema.columns()` for col_def: either the
\* error open returns, or the locals after the pass.
load_column(d, col_def, cols, rc) ==
    LET col_path == join(d.path, bin_name(col_def.index))
        f == file_at(d, bin_name(col_def.index))
    IN  IF ~exists(f)
        THEN [returns |-> TRUE,
              ret |-> Err([kind |-> "MissingColumnFile", path |-> col_path])]
        ELSE LET column == column_open(col_path, f, col_def.dtype) IN
             IF ~column.ok
             THEN [returns |-> TRUE, ret |-> column]
             ELSE IF rc.some /\ length_differs(column.val.len, rc.val)
             THEN [returns |-> TRUE,
                   ret |-> Err(LengthMismatch(col_def.name, rc.val, column.val.len))]
             ELSE [returns |-> FALSE,
                   row_count |-> IF rc.some THEN rc ELSE Some(column.val.len),
                   columns |-> insert(cols, col_def.name, column.val)]

\* Option::unwrap_or
unwrap_or(opt, default) == IF opt.some THEN opt.val ELSE default

\* Dataset { path, schema, columns, row_count: row_count.unwrap_or(0) }
Dataset(path, sch, cols, rc) ==
    [path |-> path, schema |-> sch, columns |-> cols, row_count |-> unwrap_or(rc, 0)]

\* Dataset::column
ds_column(ds, name) ==
    IF name \in DOMAIN ds.columns THEN Some(ds.columns[name]) ELSE None

\* Dataset::get::<T>
get(ds, T, name) ==
    IF name \notin DOMAIN ds.columns
    THEN Err([kind |-> "ColumnNotFound", name |-> name])
    ELSE LET column == ds.columns[name]
             slice == as_slice(column, T)
         IN  IF slice.some
             THEN Ok(slice.val)
             ELSE Err([kind |-> "TypeMismatch", expected |-> DTYPE(T),
                       actual |-> column.dtype])

\* An indexing that hands an unknown name back as an ordinary error value.
index_recoverable(ds, name) ==
    IF name \in DOMAIN ds.columns
    THEN [panics |-> FALSE, val |-> ds.columns[name]]
    ELSE [panics |-> FALSE, val |-> Err([kind |-> "ColumnNotFound", name |-> name])]

\* impl Index<&str> for Dataset: self.columns.get(name).unwrap_or_else(|| panic!(..))
index(ds, name) ==
    IF name \in DOMAIN ds.columns
    THEN [panics |-> FALSE, val |-> ds.columns[name]]
    ELSE [panics |-> TRUE, message |-> <<"Column not found: ", name>>]

\* Dataset::len
ds_len(ds) == ds.row_count

\* Dataset::num_columns
num_columns(ds) == schema_len(ds.schema)

-----------------------------------------------------------------------------
(* The arguments the operations are called with.                           *)

\* The names and aliases of from_str's match arms.
TypeNames ==
    {
     <<"u", "i", "n", "t", "8">>, <<"u", "8">>, <<"i", "n", "t", "8">>,
     <<"i", "8">>, <<"u", "i", "n", "t", "1", "6">>, <<"u", "1", "6">>,
     <<"i", "n", "t", "1", "6">>, <<"i", "1", "6">>, <<"u", "i", "n", "t", "3", "2">>,
     <<"u", "3", "2">>, <<"i", "n", "t", "3", "2">>, <<"i", "3", "2">>,
     <<"u", "i", "n", "t", "6", "4">>, <<"u", "6", "4">>, <<"s", "i", "z", "e", "_", "t">>,
     <<"i", "n", "t", "6", "4">>, <<"i", "6", "4">>, <<"f", "l", "o", "a", "t", "3", "2">>,
     <<"f", "3", "2">>, <<"f", "l", "o", "a", "t", "6", "4">>, <<"f", "6", "4">>,
     <<"d", "o", "u", "b", "l", "e">>, <<"b", "o", "o", "l">>, <<"b", "o", "o", "l", "e", "a", "n">>}

\* Either case of a character.
Cases(c) == IF c \in DOMAIN UpperOf THEN {c, UpperOf[c]} ELSE {c}

\* Every upper/lower-case spelling of a string.
RECURSIVE CaseVariants(_)
CaseVariants(str) ==
    IF str = <<>> THEN {<<>>}
    ELSE {<<c>> \o rest : c \in Cases(Head(str)), rest \in CaseVariants(Tail(str))}

\* Strings no arm of from_str names: a type name cut short, one with a character
\* more, one with a space inside, and others.
NotTypeNames ==
    {SubSeq(n, 1, Len(n) - 1) : n \in TypeNames}
    \cup {Append(n, "8") : n \in TypeNames}
    \cup {<<Head(n), " ">> \o Tail(n) : n \in TypeNames}
    \cup {<<>>, <<"i", "n", "v", "a", "l", "i", "d">>, <<"s", "i", "z", "e", "t">>,
          <<"f", "l", "o", "a", "t">>, <<"u", "i", "n", "t">>, <<"_">>}

\* Runs of at most n whitespace characters.
RECURSIVE Padding(_)
Padding(n) ==
    IF n = 0 THEN {<<>>}
    ELSE Padding(n - 1) \cup {Append(p, c) : p \in Padding(n - 1), c \in {" ", "\t"}}

\* The arguments of from_str: every spelling of every name, the strings that
\* are no name, and each of them with whitespace around it.
FromStrCores == (UNION {CaseVariants(n) : n \in TypeNames}) \cup NotTypeNames

IsFromStrArg(str) ==
    \E l \in Padding(MaxPad), c \in FromStrCores, r \in Padding(MaxPad) :
        str = l \o c \o r

\* The lines schema texts are made of: blank ones, well-formed ones (with a
\* known or an unknown type name), one with whitespace around and between the
\* tokens, and ones with one and with three tokens.
SchemaLines ==
    {<<>>, <<" ">>,
     <<"u", "8", " ", "a">>, <<"u", "8", " ", "b">>,
     <<"F", "3", "2", " ", "a">>, <<"F", "3", "2", " ", "b">>,
     <<"z", "z", " ", "a">>, <<"z", "z", " ", "b">>,
     <<" ", "i", "8", "\t", " ", "c", " ", "\r">>,
     <<"a">>,
     <<" ", "u", "8", " ", "a", "\t", "b", " ">>}

\* The texts of n lines, each line ended by a newline.
RECURSIVE TextsOfLines(_, _)
TextsOfLines(n, choice) ==
    IF n = 0 THEN {<<>>}
    ELSE {t \o l \o <<"\n">> : t \in TextsOfLines(n - 1, choice), l \in choice}

\* A text without its final newline.
WithoutFinalNewline(text) ==
    IF text = <<>> THEN text ELSE SubSeq(text, 1, Len(text) - 1)

\* The arguments of Schema::parse: up to MaxLines lines, the last one with
\* or without its newline.
SchemaTexts ==
    LET ended == UNION {TextsOfLines(n, SchemaLines) : n \in 0..MaxLines} IN
        ended \cup {WithoutFinalNewline(text) : text \in ended}

\* The names looked up in a schema or a dataset.
QueryNames == {<<"a">>, <<"b">>, <<"c">>, <<"z">>}

\* The files Column::open is called on.
ColumnFiles(maxlen) == {Missing, Unreadable} \cup {File(n) : n \in 0..maxlen}

\* The schema texts of the dataset directories: up to MaxCols lines, each
\* blank or a column of one of three kinds, and two texts that do not parse.
DirSchemaLines ==
    {<<>>, <<"u", "8", " ", "a">>, <<"I", "8", "\t", "b">>,
     <<"u", "1", "6", " ", "c">>}

DirSchemaTexts ==
    (UNION {TextsOfLines(n, DirSchemaLines) : n \in 0..MaxCols})
    \cup {<<"u", "8", "\n">>, <<"z", "z", " ", "a", "\n">>}

\* The number of lines of a text that are not blank.
NonBlankLines(text) ==
    Cardinality({k \in 1..Len(lines(text)) : trim(lines(text)[k]) # <<>>})

\* The dataset directories: schema.txt absent, unreadable or one of the texts,
\* and for each line of it that is not blank a file 0.bin, 1.bin, ... that is
\* absent, unreadable or of some size. The directory holds no other file.
DirSchemaFiles == {Missing, Unreadable} \cup {Text(text) : text \in DirSchemaTexts}

DirColumnFiles(sf) ==
    IF sf.kind = "file"
    THEN [{bin_name(k) : k \in 0..(NonBlankLines(sf.text) - 1)} -> ColumnFiles(MaxColBytes)]
    ELSE {EmptyMap}

IsDir(d) ==
    \E sf \in DirSchemaFiles : \E fs \in DirColumnFiles(sf) :
        d = [path |-> "data", schema |-> sf, files |-> fs]

\* The element types get::<T> is called with.
GetTypes == {"u8", "i8", "u16", "f32"}

-----------------------------------------------------------------------------
(* The state before any call, per component.                               *)

NoDir == [path |-> "data", schema |-> Missing, files |-> EmptyMap]

DTypeIdle == s = <<>> /\ dres = Pending
SchemaIdle == content = <<>> /\ sres = Pending /\ squery = Pending
ColumnIdle == cfile = Missing /\ cdtype = "UInt8" /\ cres = Pending /\ cview = Pending
DatasetIdle ==
    /\ dir = NoDir
    /\ pc = "idle"
    /\ schema = Pending
    /\ columns = EmptyMap
    /\ row_count = None
    /\ next_col = 0
    /\ ret = Pending
    /\ last = Pending

-----------------------------------------------------------------------------
(* DType::from_str on one argument.                                        *)

InitDType ==
    /\ IsFromStrArg(s)
    /\ dres = Pending
    /\ SchemaIdle /\ ColumnIdle /\ DatasetIdle

FromStr ==
    /\ dres = Pending
    /\ dres' = from_str(s)
    /\ UNCHANGED <<s, scVars, coVars, dsVars>>

NextDType == FromStr

SpecDType == InitDType /\ [][NextDType]_vars

-----------------------------------------------------------------------------
(* Schema::parse on one text, and the accessors of the Schema it returns.  *)

InitSchema ==
    /\ content \in SchemaTexts
    /\ sres = Pending
    /\ squery = Pending
    /\ DTypeIdle /\ ColumnIdle /\ DatasetIdle

SchemaParseCall ==
    /\ sres = Pending
    /\ sres' = parse(content)
    /\ UNCHANGED <<content, squery, dtVars, coVars, dsVars>>

SchemaColumnNames ==
    /\ IsOk(sres)
    /\ squery' = [call |-> "column_names", val |-> column_names(sres.val)]
    /\ UNCHANGED <<content, sres, dtVars, coVars, dsVars>>

\* schema.get(name)
SchemaGet ==
    /\ IsOk(sres)
    /\ \E name \in QueryNames :
           squery' = [call |-> "get", name |-> name, val |-> schema_get(sres.val, name)]
    /\ UNCHANGED <<content, sres, dtVars, coVars, dsVars>>

\* schema.get_by_index(index)
SchemaGetByIndex ==
    /\ IsOk(sres)
    /\ \E i \in 0..(MaxLines + 1) :
           squery' = [call |-> "get_by_index", index |-> i,
                      val |-> get_by_index(sres.val, i)]
    /\ UNCHANGED <<content, sres, dtVars, coVars, dsVars>>

NextSchema == SchemaParseCall \/ SchemaColumnNames \/ SchemaGet \/ SchemaGetByIndex

SpecSchema == InitSchema /\ [][NextSchema]_vars

-----------------------------------------------------------------------------
(* Column::open on one file, and the accessors of the Column it returns.   *)

ColumnPath == join("data", bin_name(0))

InitColumn ==
    /\ cfile \in ColumnFiles(MaxFileLen)
    /\ cdtype \in DType
    /\ cres = Pending
    /\ cview = Pending
    /\ DTypeIdle /\ SchemaIdle /\ DatasetIdle

ColumnOpen ==
    /\ cres = Pending
    /\ cres' = column_open(ColumnPath, cfile, cdtype)
    /\ UNCHANGED <<cfile, cdtype, cview, dtVars, scVars, dsVars>>

ColumnAsSlice ==
    /\ IsOk(cres)
    /\ \E T \in MmappetType :
           cview' = [call |-> "as_slice", T |-> T, val |-> as_slice(cres.val, T)]
    /\ UNCHANGED <<cfile, cdtype, cres, dtVars, scVars, dsVars>>

ColumnAsTypedArray ==
    /\ IsOk(cres)
    /\ cview' = [call |-> "as_typed_array", val |-> as_typed_array(cres.val)]
    /\ UNCHANGED <<cfile, cdtype, cres, dtVars, scVars, dsVars>>

NextColumn == ColumnOpen \/ ColumnAsSlice \/ ColumnAsTypedArray

SpecColumn == InitColumn /\ [][NextColumn]_vars

-----------------------------------------------------------------------------
(* Dataset::open on one directory, step by step, and the accessors of the  *)
(* Dataset it returns.  pc is "start" before `Schema::from_path`,          *)
(* "columns" in the loop over the column definitions, "done" once open has *)
(* returned; the locals are gone when it returns.                          *)

Init ==
    /\ IsDir(dir)
    /\ pc = "start"
    /\ schema = Pending
    /\ columns = EmptyMap
    /\ row_count = None
    /\ next_col = 0
    /\ ret = Pending
    /\ last = Pending
    /\ DTypeIdle /\ SchemaIdle /\ ColumnIdle

\* open returns r: its locals are dropped (or moved into r).
Return(r) ==
    /\ ret' = r
    /\ pc' = "done"
    /\ schema' = Pending
    /\ columns' = EmptyMap
    /\ row_count' = None
    /\ next_col' = 0

\* `let schema = Schema::from_path(&path)?;` and the two `let mut`
OpenStart ==
    /\ pc = "start"
    /\ LET r == from_path(dir) IN
           IF r.ok
           THEN /\ schema' = r.val
                /\ columns' = EmptyMap
                /\ row_count' = None
                /\ next_col' = 0
                /\ pc' = "columns"
                /\ UNCHANGED ret
           ELSE Return(r)
    /\ UNCHANGED <<dir, last, dtVars, scVars, coVars>>

\* A loop that ends after its first pass.
OpenFinishEarly ==
    /\ pc = "columns"
    /\ next_col >= Len(schema.columns) \/ next_col >= 1
    /\ Return(Ok(Dataset(dir.path, schema, columns, row_count)))
    /\ UNCHANGED <<dir, last, dtVars, scVars, coVars>>

\* One pass of the loop.
OpenColumn ==
    /\ pc = "columns"
    /\ next_col < Len(schema.columns)
    /\ LET step == load_column(dir, schema.columns[next_col + 1], columns, row_count) IN
           IF step.returns
           THEN Return(step.ret)
           ELSE /\ columns' = step.columns
                /\ row_count' = step.row_count
                /\ next_col' = next_col + 1
                /\ UNCHANGED <<pc, schema, ret>>
    /\ UNCHANGED <<dir, last, dtVars, scVars, coVars>>

\* The loop is over: `Ok(Dataset { .. })`
OpenFinish ==
    /\ pc = "columns"
    /\ next_col >= Len(schema.columns)
    /\ Return(Ok(Dataset(dir.path, schema, columns, row_count)))
    /\ UNCHANGED <<dir, last, dtVars, scVars, coVars>>

\* ds.get::<T>(name) on the Dataset open returned
Get ==
    /\ pc = "done"
    /\ IsOk(ret)
    /\ \E T \in GetTypes, name \in QueryNames :
           last' = [call |-> "get", T |-> T, name |-> name, val |-> get(ret.val, T, name)]
    /\ UNCHANGED <<dir, pc, schema, columns, row_count, next_col, ret,
                   dtVars, scVars, coVars>>

\* ds.column(name) on the Dataset open returned
DsColumn ==
    /\ pc = "done"
    /\ IsOk(ret)
    /\ \E name \in QueryNames :
           last' = [call |-> "column", name |-> name, val |-> ds_column(ret.val, name)]
    /\ UNCHANGED <<dir, pc, schema, columns, row_count, next_col, ret,
                   dtVars, scVars, coVars>>

\* &ds[name] on the Dataset open returned
DsIndex ==
    /\ pc = "done"
    /\ IsOk(ret)
    /\ \E name \in QueryNames :
           last' = [call |-> "index", name |-> name, val |-> index(ret.val, name)]
    /\ UNCHANGED <<dir, pc, schema, columns, row_count, next_col, ret,
                   dtVars, scVars, coVars>>

Next == OpenStart \/ OpenColumn \/ OpenFinish \/ Get \/ DsColumn \/ DsIndex

Spec == Init /\ [][Next]_vars

-----------------------------------------------------------------------------
(* Properties of Column::open (checked under SpecColumn).                  *)

\* C1: Column::open on a file of byte length L with a dtype of width w
\* succeeds, with element count L / w (so that count * w = L), exactly when
\* L % w = 0; otherwise it fails with InvalidFileSize carrying the path,
\* actual = L and element_size = w. For every L and each of the eleven kinds.
C1_OpenSucceedsIffSizeDivides ==
    (cres # Pending /\ cfile.kind = "file") =>
        LET L == cfile.size
            w == size_bytes(cdtype)
        IN  /\ cdtype \in DType /\ w \in {1, 2, 4, 8}
            /\ IsOk(cres) <=> (L % w = 0)
            /\ IsOk(cres) =>
                   /\ cres.val.len * w = L
                   /\ cres.val.len = L \div w
                   /\ cres.val.mmap = cres.val.len * w
                   /\ cres.val.dtype = cdtype
            /\ IsErr(cres) =>
                   cres.err = [kind |-> "InvalidFileSize", path |-> ColumnPath,
                               actual |-> L, element_size |-> w]

\* C1, reached: an 8-byte kind opened on a file of two elements.
C1_Witness ==
    /\ IsOk(cres)
    /\ cdtype = "Float64"
    /\ cfile = File(16)
    /\ cres.val.len = 2

\* C11: as_typed_array() returns the variant of the column's dtype and of no
\* other (the view's dtype() is the column's dtype(), for all eleven kinds,
\* the Bool variant over single bytes), and the view's element count is the
\* column's len(): the bytes are read at exactly the dtype's width.
C11_TypedArrayMatchesDType ==
    (cview # Pending /\ cview.call = "as_typed_array") =>
        LET col == cres.val
            v == cview.val
        IN  /\ view_dtype(v) = column_dtype(col)
            /\ view_dtype(v) \in DType
            /\ view_len(v) = column_len(col)
            /\ size_of(v.view.elem) = size_bytes(column_dtype(col))
            /\ view_len(v) * size_bytes(column_dtype(col)) = cfile.size
            /\ column_dtype(col) = "Bool" => v.view.elem = "u8"

\* C11, reached: a Bool column of three bytes viewed as three single bytes.
C11_Witness ==
    /\ cview # Pending
    /\ cview.call = "as_typed_array"
    /\ cdtype = "Bool"
    /\ cfile = File(3)
    /\ view_dtype(cview.val) = "Bool"
    /\ view_len(cview.val) = 3

-----------------------------------------------------------------------------
(* Properties of Dataset::open and Dataset::get (checked under Spec).      *)

\* The Schema of the directory's schema.txt, when it parses.
DeclaredOk == dir.schema.kind = "file" /\ parse(dir.schema.text).ok
Declared == parse(dir.schema.text).val.columns

\* The file of the k-th declared column (k from 1).
FileOf(k) == file_at(dir, bin_name(k - 1))

\* The k-th declared column's file is a readable file of a valid size.
ValidFile(k) ==
    FileOf(k).kind = "file" /\ FileOf(k).size % size_bytes(Declared[k].dtype) = 0

\* The element count of the k-th declared column's file.
CountOf(k) == FileOf(k).size \div size_bytes(Declared[k].dtype)

\* C2: in every Dataset that open returns, every column's element count equals
\* len(); len() is 0 when the schema declares no columns, and then open
\* succeeds although the directory holds no column file.
C2_ColumnsShareRowCount ==
    /\ (pc = "done" /\ IsOk(ret)) =>
           /\ \A name \in DOMAIN ret.val.columns :
                  ret.val.columns[name].len = ds_len(ret.val)
           /\ \A k \in 1..Len(Declared) : CountOf(k) = ds_len(ret.val)
           /\ num_columns(ret.val) = 0 => ds_len(ret.val) = 0
    /\ (pc = "done" /\ dir.schema.kind = "file" /\ NonBlankLines(dir.schema.text) = 0) =>
           /\ IsOk(ret)
           /\ ds_len(ret.val) = 0
           /\ num_columns(ret.val) = 0
           /\ ~exists(file_at(dir, bin_name(0)))

\* C2, reached: a Dataset of two or more columns that share two rows.
C2_Witness ==
    /\ pc = "done"
    /\ IsOk(ret)
    /\ Cardinality(DOMAIN ret.val.columns) >= 2
    /\ ds_len(ret.val) = 2

\* Every declared column has a readable file of valid size, and the counts differ.
CountsDiffer ==
    /\ DeclaredOk
    /\ \A k \in 1..Len(Declared) : ValidFile(k)
    /\ \E k \in 1..Len(Declared) : CountOf(k) # CountOf(1)

\* The first declared column whose count differs from the first column's.
FirstDiffering ==
    CHOOSE k \in 1..Len(Declared) :
        /\ CountOf(k) # CountOf(1)
        /\ \A j \in 1..(k - 1) : CountOf(j) = CountOf(1)

\* C3: when all column files exist with valid sizes but the counts differ, open
\* fails with LengthMismatch naming the first column, in declaration order,
\* whose count differs from the first declared column's; expected is the first
\* declared column's count and actual the offending column's.
C3_LengthMismatchNamesFirstDiffering ==
    (pc = "done" /\ CountsDiffer) =>
        ret = Err([kind |-> "LengthMismatch",
                   name |-> Declared[FirstDiffering].name,
                   expected |-> CountOf(1),
                   actual |-> CountOf(FirstDiffering)])

\* C3, reached: three columns, the third the first to differ.
C3_Witness ==
    /\ pc = "done"
    /\ CountsDiffer
    /\ Len(Declared) = 3
    /\ FirstDiffering = 3
    /\ IsErrKind(ret, "LengthMismatch")

\* What open has returned is a Dataset of all the declared columns, each one
\* opened from its file, of a valid size and of the common length.
Complete(ds) ==
    /\ DeclaredOk
    /\ ds.schema = parse(dir.schema.text).val
    /\ ds.path = dir.path
    /\ DOMAIN ds.columns = {Declared[k].name : k \in 1..Len(Declared)}
    /\ \A k \in 1..Len(Declared) :
           /\ ValidFile(k)
           /\ ds.columns[Declared[k].name] =
                  [mmap |-> FileOf(k).size, dtype |-> Declared[k].dtype, len |-> CountOf(k)]
           /\ CountOf(k) = ds.row_count

\* C4: open is all-or-nothing. Until it returns there is no result; what it
\* returns is an error without a Dataset, or a Dataset whose schema parsed and
\* whose every declared column was opened, size-validated and length-checked;
\* and a returned Dataset is never changed afterwards.
C4_AllOrNothing ==
    /\ [](/\ (pc # "done") <=> (ret = Pending)
          /\ pc = "done" =>
                 /\ schema = Pending /\ columns = EmptyMap /\ row_count = None
                 /\ IsOk(ret) \/ IsErr(ret)
                 /\ IsErr(ret) => DOMAIN ret = {"ok", "err"}
                 /\ IsOk(ret) => Complete(ret.val))
    /\ [][ret # Pending => (ret' = ret /\ pc' = "done")]_vars

\* C4, reached: a Dataset of three columns has been returned.
C4_Witness ==
    /\ pc = "done"
    /\ IsOk(ret)
    /\ Cardinality(DOMAIN ret.val.columns) = 3

\* C10: for a Dataset and a name present in it, get::<T>(name) succeeds, with
\* exactly len() elements of T, exactly when T::DTYPE is the column's dtype;
\* otherwise it fails with TypeMismatch reporting T::DTYPE and the column's dtype.
C10_GetSucceedsIffTagMatches ==
    (last # Pending /\ last.call = "get" /\ last.name \in DOMAIN ret.val.columns) =>
        LET column == ret.val.columns[last.name] IN
            /\ last.val.ok <=> (DTYPE(last.T) = column.dtype)
            /\ last.val.ok =>
                   last.val.val = [elem |-> last.T, len |-> ds_len(ret.val)]
            /\ ~last.val.ok =>
                   last.val.err = [kind |-> "TypeMismatch",
                                   expected |-> DTYPE(last.T),
                                   actual |-> column.dtype]

\* C10, reached: a type of the column's width but not of its tag is refused.
C10_Witness ==
    /\ last # Pending
    /\ last.call = "get"
    /\ last.T = "i8"
    /\ last.name \in DOMAIN ret.val.columns
    /\ ret.val.columns[last.name].dtype = "UInt8"
    /\ ds_len(ret.val) = 2
    /\ IsErrKind(last.val, "TypeMismatch")

\* The native types under which as_slice hands out the column.
SliceTypes(col) == {T \in MmappetType : as_slice(col, T).some}

\* C15 as claimed: DTYPE is injective and every kind, Bool included, is the
\* DTYPE of some native type T, so every column is handed out by as_slice::<T>
\* for some T.
C15_EveryKindHasNativeType ==
    IsOk(cres) =>
        /\ \A T1, T2 \in MmappetType : DTYPE(T1) = DTYPE(T2) => T1 = T2
        /\ \E T \in MmappetType : DTYPE(T) = column_dtype(cres.val)
        /\ SliceTypes(cres.val) # {}

\* C15: DTYPE is injective and covers the ten numeric kinds but not Bool: a
\* column of a numeric kind is handed out by as_slice::<T> for exactly one T,
\* of the kind's width and with len() elements; a Bool column is refused for
\* every T.
C15_NumericKindsHaveOneNativeType ==
    IsOk(cres) =>
        LET col == cres.val IN
            /\ \A T1, T2 \in MmappetType : DTYPE(T1) = DTYPE(T2) => T1 = T2
            /\ {DTYPE(T) : T \in MmappetType} = DType \ {"Bool"}
            /\ column_dtype(col) # "Bool" =>
                   /\ Cardinality(SliceTypes(col)) = 1
                   /\ \A T \in SliceTypes(col) :
                          /\ DTYPE(T) = column_dtype(col)
                          /\ size_of(T) = size_bytes(column_dtype(col))
                          /\ as_slice(col, T).val = [elem |-> T, len |-> column_len(col)]
            /\ column_dtype(col) = "Bool" => SliceTypes(col) = {}
            /\ (cview # Pending /\ cview.call = "as_slice") =>
                   /\ cview.val.some <=> cview.T \in SliceTypes(col)
                   /\ column_dtype(col) = "Bool" => cview.val = None

\* C15, reached: a Float64 column of two elements is handed out as &[f64].
C15_Witness ==
    /\ IsOk(cres)
    /\ cdtype = "Float64"
    /\ cfile = File(16)
    /\ cview # Pending
    /\ cview.call = "as_slice"
    /\ cview.T = "f64"
    /\ cview.val = Some([elem |-> "f64", len |-> 2])
    /\ SliceTypes(cres.val) = {"f64"}

\* The file <directory>/<k-1>.bin, the one of the k-th declared column.
NamedFile(k) == file_at(dir, <<k - 1, ".bin">>)

\* The k-th declared column's file <k-1>.bin is readable, of a valid size and
\* of the first column's element count.
Passes(k) ==
    /\ NamedFile(k).kind = "file"
    /\ NamedFile(k).size % size_bytes(Declared[k].dtype) = 0
    /\ NamedFile(1).kind = "file"
    /\ NamedFile(k).size \div size_bytes(Declared[k].dtype)
           = NamedFile(1).size \div size_bytes(Declared[1].dtype)

\* C12: open looks for the file of the column with declaration index i (the
\* non-blank schema lines counted from 0) at <directory>/<i>.bin; if that file
\* is absent while all earlier columns passed their checks, open fails with
\* MissingColumnFile carrying exactly that path.
C12_MissingFileNamesIndexPath ==
    (pc = "done" /\ DeclaredOk) =>
        /\ Len(Declared) = NonBlankLines(dir.schema.text)
        /\ \A k \in 1..Len(Declared) :
               /\ Declared[k].index = k - 1
               /\ (~exists(NamedFile(k)) /\ \A j \in 1..(k - 1) : Passes(j)) =>
                      ret = Err([kind |-> "MissingColumnFile",
                                 path |-> [dir |-> dir.path, file |-> <<k - 1, ".bin">>]])
        /\ IsErrKind(ret, "MissingColumnFile") =>
               \E k \in 1..Len(Declared) :
                   /\ ret.err.path = [dir |-> dir.path, file |-> <<k - 1, ".bin">>]
                   /\ ~exists(NamedFile(k))
                   /\ \A j \in 1..(k - 1) : Passes(j)

\* C12, reached: after a blank first line, the second column's 1.bin is absent.
C12_Witness ==
    /\ pc = "done"
    /\ DeclaredOk
    /\ Len(Declared) >= 2
    /\ trim(lines(dir.schema.text)[1]) = <<>>
    /\ Passes(1)
    /\ ~exists(NamedFile(2))
    /\ ret = Err([kind |-> "MissingColumnFile",
                  path |-> [dir |-> "data", file |-> <<1, ".bin">>]])

\* C13: for a Dataset and any name, column(name), get::<T>(name) and ds[name]
\* agree on presence: the name is declared in the schema <=> column returns a
\* column <=> get does not fail with ColumnNotFound <=> indexing returns a
\* column. For an absent name column returns None, get returns the
\* ColumnNotFound error whatever T is, and indexing panics.
C13_LookupPathsAgree ==
    (last # Pending /\ last.call \in {"column", "get", "index"}) =>
        LET ds == ret.val
            name == last.name
            declared == schema_get(ds.schema, name).some
            NotFound == Err([kind |-> "ColumnNotFound", name |-> name])
        IN  /\ declared <=> ds_column(ds, name).some
            /\ \A T \in MmappetType : declared <=> get(ds, T, name) # NotFound
            /\ \A T \in MmappetType : ~IsErrKind(get(ds, T, name), "ColumnNotFound")
                                          <=> get(ds, T, name) # NotFound
            /\ declared <=> ~index(ds, name).panics
            /\ last.call = "column" =>
                   /\ declared <=> last.val.some
                   /\ declared => last.val.val = ds.columns[name]
                   /\ ~declared => last.val = None
            /\ last.call = "get" =>
                   /\ declared <=> ~IsErrKind(last.val, "ColumnNotFound")
                   /\ ~declared => last.val = NotFound
            /\ last.call = "index" =>
                   /\ declared <=> ~last.val.panics
                   /\ declared => last.val.val = ds.columns[name]
                   /\ ~declared => "val" \notin DOMAIN last.val

\* C13, reached: a Dataset of two columns is indexed by a name it does not
\* declare, and the indexing panics.
C13_Witness ==
    /\ last # Pending
    /\ last.call = "index"
    /\ last.name = <<"z">>
    /\ Cardinality(DOMAIN ret.val.columns) = 2
    /\ last.val.panics
    /\ ds_column(ret.val, <<"z">>) = None
    /\ \A T \in MmappetType : IsErrKind(get(ret.val, T, <<"z">>), "ColumnNotFound")

\* The error of the k-th declared column, by the precedence missing file, I/O
\* failure, invalid file size, length mismatch.
ErrorOf(k) ==
    LET path == [dir |-> dir.path, file |-> <<k - 1, ".bin">>]
        width == size_bytes(Declared[k].dtype)
    IN  IF NamedFile(k).kind = "missing"
        THEN [kind |-> "MissingColumnFile", path |-> path]
        ELSE IF NamedFile(k).kind = "unreadable"
        THEN [kind |-> "Io", path |-> path]
        ELSE IF NamedFile(k).size % width # 0
        THEN [kind |-> "InvalidFileSize", path |-> path,
              actual |-> NamedFile(k).size, element_size |-> width]
        ELSE [kind |-> "LengthMismatch", name |-> Declared[k].name,
              expected |-> NamedFile(1).size \div size_bytes(Declared[1].dtype),
              actual |-> NamedFile(k).size \div width]

\* The declared columns that fail a check.
Failing == {k \in 1..Len(Declared) : ~Passes(k)}

\* The lowest-index failing column.
FirstFailing == CHOOSE k \in Failing : \A j \in Failing : k <= j

\* C16: open examines the columns in declaration order and stops at the first
\* that fails a check: the error is the one of the lowest-index failing column,
\* by the precedence missing file, I/O failure, invalid file size, length
\* mismatch; open never goes past a failing column, and the state of the
\* columns declared after it does not change the result.
C16_FirstFailingColumnDecides ==
    /\ pc = "columns" =>
           /\ schema.columns = Declared
           /\ \A k \in 1..next_col : Passes(k)
           /\ DOMAIN columns = {Declared[k].name : k \in 1..next_col}
    /\ (pc = "done" /\ DeclaredOk) =>
           IF Failing = {}
           THEN IsOk(ret)
           ELSE ret = Err(ErrorOf(FirstFailing))

\* C16, reached: the second of three columns differs in length and the third
\* has no file; the length mismatch of the second is what open returns.
C16_Witness ==
    /\ pc = "done"
    /\ DeclaredOk
    /\ Len(Declared) = 3
    /\ Failing = {2, 3}
    /\ NamedFile(2).kind = "file"
    /\ NamedFile(3).kind = "missing"
    /\ ret = Err([kind |-> "LengthMismatch", name |-> Declared[2].name,
                  expected |-> 1, actual |-> 2])

-----------------------------------------------------------------------------
(* Properties of Schema::parse (checked under SpecSchema).                 *)

\* t is str without the whitespace at its two ends.
IsTrimOf(t, str) ==
    \E a \in 0..Len(str), b \in 0..Len(str) :
        /\ a + b <= Len(str)
        /\ t = SubSeq(str, a + 1, Len(str) - b)
        /\ \A k \in 1..a : IsWhitespace(str[k])
        /\ \A k \in (Len(str) - b + 1)..Len(str) : IsWhitespace(str[k])
        /\ t = <<>> \/ (~IsWhitespace(t[1]) /\ ~IsWhitespace(t[Len(t)]))

\* The lines of the schema text, and the tokens of the k-th (k from 1).
SourceLines == lines(content)
Tokens(k) == split_whitespace(SourceLines[k])
IsBlank(k) == Tokens(k) = <<>>

\* The positions of the lines that are not blank, in file order.
NonBlank == SelectSeq([k \in 1..Len(SourceLines) |-> k], LAMBDA k : ~IsBlank(k))

\* Line k is `<type-name> <column-name>` with a type name from_str knows.
WellFormed(k) == Len(Tokens(k)) = 2 /\ from_str(Tokens(k)[1]).ok

\* Line k carries the column name of an earlier line.
Repeats(k) ==
    /\ Len(Tokens(k)) = 2
    /\ \E j \in 1..(k - 1) : Len(Tokens(j)) = 2 /\ Tokens(j)[2] = Tokens(k)[2]

\* C5: for every schema text parse accepts, the definitions are the non-blank
\* lines in file order, the k-th (from 0) has index k, blank lines consume no
\* index, and column_names() returns the names in that order.
C5_ColumnsFollowLineOrder ==
    IsOk(sres) =>
        LET cols == sres.val.columns IN
            /\ Len(cols) = Len(NonBlank)
            /\ \A k \in 1..Len(cols) :
                   /\ cols[k].index = k - 1
                   /\ cols[k].name = Tokens(NonBlank[k])[2]
                   /\ Ok(cols[k].dtype) = from_str(Tokens(NonBlank[k])[1])
            /\ (squery # Pending /\ squery.call = "column_names") =>
                   squery.val = [k \in 1..Len(NonBlank) |-> Tokens(NonBlank[k])[2]]

\* C5, reached: two columns after a blank first line, and their names listed.
C5_Witness ==
    /\ IsOk(sres)
    /\ Len(SourceLines) = 3
    /\ IsBlank(1)
    /\ Len(sres.val.columns) = 2
    /\ squery # Pending
    /\ squery.call = "column_names"

\* C14: in every Schema parse produces, the names are pairwise distinct; for
\* every position i < len(), get_by_index(i) is a definition d with d.index = i
\* and get(d.name) returns that same definition; get_by_index(i) is None exactly
\* when i >= len(); and get(name) is None exactly when no definition has the name.
C14_NameAndIndexLookupsAgree ==
    IsOk(sres) =>
        LET sch == sres.val
            cols == sch.columns
            Named(name) == {k \in 1..Len(cols) : cols[k].name = name}
        IN  /\ \A i, j \in 1..Len(cols) : cols[i].name = cols[j].name => i = j
            /\ \A i \in 0..(MaxLines + 1) :
                   /\ get_by_index(sch, i) = None <=> i >= schema_len(sch)
                   /\ i < schema_len(sch) =>
                          LET d == get_by_index(sch, i) IN
                              /\ d.some
                              /\ d.val.index = i
                              /\ schema_get(sch, d.val.name) = d
            /\ \A name \in QueryNames :
                   /\ schema_get(sch, name) = None <=> Named(name) = {}
                   /\ schema_get(sch, name).some =>
                          get_by_index(sch, schema_get(sch, name).val.index)
                              = schema_get(sch, name)
            /\ (squery # Pending /\ squery.call = "get_by_index") =>
                   /\ squery.val = None <=> squery.index >= schema_len(sch)
                   /\ squery.val.some =>
                          /\ squery.val.val.index = squery.index
                          /\ squery.val.val = cols[squery.index + 1]
            /\ (squery # Pending /\ squery.call = "get") =>
                   /\ squery.val = None <=> Named(squery.name) = {}
                   /\ squery.val.some =>
                          /\ squery.val.val.name = squery.name
                          /\ squery.val.val \in {cols[k] : k \in 1..Len(cols)}

\* C14, reached: the last of three definitions, declared after a blank-free
\* text, is looked up by its index 2 and carries the name "c".
C14_Witness ==
    /\ IsOk(sres)
    /\ schema_len(sres.val) = 3
    /\ squery # Pending
    /\ squery.call = "get_by_index"
    /\ squery.index = 2
    /\ squery.val.some
    /\ squery.val.val.index = 2
    /\ schema_get(sres.val, squery.val.val.name) = squery.val
    /\ get_by_index(sres.val, 3) = None

\* C6 as claimed: whenever two non-blank lines carry the same column name,
\* parse returns DuplicateColumnName with that name.
C6_AnyRepeatFailsDuplicate ==
    sres # Pending =>
        \A k \in 1..Len(SourceLines) :
            Repeats(k) =>
                sres = Err([kind |-> "DuplicateColumnName", name |-> Tokens(k)[2]])

\* The first line that carries the column name of an earlier line.
IsFirstRepeat(k) == Repeats(k) /\ \A j \in 1..(k - 1) : ~Repeats(j)

\* C6: when the first line that repeats an earlier line's column name is
\* well-formed and so is every non-blank line before it, parse returns
\* DuplicateColumnName with that name, whatever the two declared types.
C6_FirstRepeatFailsDuplicate ==
    sres # Pending =>
        \A k \in 1..Len(SourceLines) :
            (/\ IsFirstRepeat(k)
             /\ \A j \in 1..k : IsBlank(j) \/ WellFormed(j)) =>
                sres = Err([kind |-> "DuplicateColumnName", name |-> Tokens(k)[2]])

\* C6, reached: a name declared twice with two different types.
C6_Witness ==
    /\ IsErrKind(sres, "DuplicateColumnName")
    /\ \E k \in 1..Len(SourceLines) :
           /\ IsFirstRepeat(k)
           /\ \A j \in 1..k : IsBlank(j) \/ WellFormed(j)
           /\ \E j \in 1..(k - 1) :
                  /\ Len(Tokens(j)) = 2
                  /\ Tokens(j)[2] = Tokens(k)[2]
                  /\ from_str(Tokens(j)[1]) # from_str(Tokens(k)[1])

\* Line k is not blank and does not hold exactly two tokens.
Malformed(k) == ~IsBlank(k) /\ Len(Tokens(k)) # 2

\* C7 as claimed: any non-blank line whose token count is not 2 makes parse
\* fail with SchemaParse whose line is that line's 1-based number.
C7_AnyMalformedLineIsReported ==
    sres # Pending =>
        \A k \in 1..Len(SourceLines) :
            Malformed(k) => (IsErrKind(sres, "SchemaParse") /\ sres.err.line = k)

\* Every non-blank line before line k is accepted: it is well-formed and
\* repeats no earlier name.
AcceptedBefore(k) == \A j \in 1..(k - 1) : IsBlank(j) \/ (WellFormed(j) /\ ~Repeats(j))

\* C7: a non-blank line whose token count is not 2, when every non-blank line
\* before it is accepted, makes parse fail with SchemaParse whose line is the
\* line's 1-based number in the text, blank lines counted. Blank lines never
\* cause a failure and occupy no column position.
C7_FirstMalformedLineIsReported ==
    sres # Pending =>
        /\ \A k \in 1..Len(SourceLines) :
               (Malformed(k) /\ AcceptedBefore(k)) =>
                   (IsErrKind(sres, "SchemaParse") /\ sres.err.line = k)
        /\ (\A k \in 1..Len(SourceLines) : IsBlank(k)) =>
               (IsOk(sres) /\ sres.val.columns = <<>>)
        /\ IsErr(sres) =>
               \E k \in 1..Len(SourceLines) :
                   /\ ~IsBlank(k)
                   /\ AcceptedBefore(k)
                   /\ Malformed(k) \/ ~WellFormed(k) \/ Repeats(k)
        /\ IsOk(sres) => Len(sres.val.columns) = Len(NonBlank)

\* C7, reached: the third line, after a blank first one, is reported.
C7_Witness ==
    /\ IsErrKind(sres, "SchemaParse")
    /\ sres.err.line = 3
    /\ IsBlank(1)
    /\ Malformed(3)

\* The text a SchemaParse error reports: its message after the fixed words.
Reported(message) == SubSeq(message, Len(format_message(<<>>)) + 1, Len(message))

\* C8 as claimed: the SchemaParse error carries the offending line exactly as
\* the schema text holds it, leading and trailing whitespace included.
C8_ErrorCarriesRawLine ==
    IsErrKind(sres, "SchemaParse") =>
        Reported(sres.err.message) = SourceLines[sres.err.line]

\* C8: the SchemaParse error carries the offending line without its leading
\* and trailing whitespace (the whitespace between its tokens kept), after
\* the words "Expected 'dtype name', got: ".
C8_ErrorCarriesTrimmedLine ==
    IsErrKind(sres, "SchemaParse") =>
        /\ Malformed(sres.err.line)
        /\ IsTrimOf(Reported(sres.err.message), SourceLines[sres.err.line])
        /\ sres.err.message = format_message(<<>>) \o Reported(sres.err.message)

\* C8, reached: an offending line with whitespace at both ends and inside.
C8_Witness ==
    /\ IsErrKind(sres, "SchemaParse")
    /\ IsWhitespace(Head(SourceLines[sres.err.line]))
    /\ Len(Tokens(sres.err.line)) = 3
    /\ Len(Reported(sres.err.message)) < Len(SourceLines[sres.err.line])

-----------------------------------------------------------------------------
(* Properties of DType::from_str (checked under SpecDType).                *)

\* The aliases: the short numeric-width forms, size_t, double and boolean.
Aliases ==
    {<<<<"u", "8">>, "UInt8">>,
     <<<<"i", "8">>, "Int8">>,
     <<<<"u", "1", "6">>, "UInt16">>,
     <<<<"i", "1", "6">>, "Int16">>,
     <<<<"u", "3", "2">>, "UInt32">>,
     <<<<"i", "3", "2">>, "Int32">>,
     <<<<"u", "6", "4">>, "UInt64">>,
     <<<<"s", "i", "z", "e", "_", "t">>, "UInt64">>,
     <<<<"i", "6", "4">>, "Int64">>,
     <<<<"f", "3", "2">>, "Float32">>,
     <<<<"f", "6", "4">>, "Float64">>,
     <<<<"d", "o", "u", "b", "l", "e">>, "Float64">>,
     <<<<"b", "o", "o", "l", "e", "a", "n">>, "Bool">>}

\* The accepted names with their kinds: the canonical names and the aliases.
Accepted == {<<as_str(d), d>> : d \in DType} \cup Aliases

\* Every spelling of an accepted name, in either case of each letter, with
\* the name's kind.
SpellingKinds == UNION {{<<v, e[2]>> : v \in CaseVariants(e[1])} : e \in Accepted}
AcceptedSpellings == {e[1] : e \in SpellingKinds}

\* The kind of a spelling of an accepted name.
KindOf(str) == CHOOSE d \in DType : <<str, d>> \in SpellingKinds

\* C9 as claimed: from_str(as_str(d)) = d, every upper/lower-case variant of
\* an accepted name or alias parses to its kind, and every other string fails
\* with UnknownDType.
C9_OnlyNamesParse ==
    dres # Pending =>
        /\ \A d \in DType : s = as_str(d) => dres = Ok(d)
        /\ s \in AcceptedSpellings => dres = Ok(KindOf(s))
        /\ s \notin AcceptedSpellings => IsErrKind(dres, "UnknownDType")

\* The argument without the whitespace at its two ends.
Trimmed == CHOOSE t \in {SubSeq(s, a, b) : a \in 1..(Len(s) + 1), b \in 0..Len(s)} :
               IsTrimOf(t, s)

\* C9: from_str(as_str(d)) = d, every upper/lower-case variant of an accepted
\* name or alias parses to its kind, also with whitespace around it, and
\* every string that without the whitespace at its ends is no such variant
\* fails with UnknownDType carrying the string.
C9_NamesParseInAnyCase ==
    dres # Pending =>
        LET t == Trimmed IN
            /\ \A d \in DType : s = as_str(d) => dres = Ok(d)
            /\ t \in AcceptedSpellings => dres = Ok(KindOf(t))
            /\ t \notin AcceptedSpellings =>
                   dres = Err([kind |-> "UnknownDType", name |-> s])

\* C9, reached: the size_t alias in upper case is the 8-byte unsigned kind.
C9_Witness ==
    /\ s = <<"S", "I", "Z", "E", "_", "T">>
    /\ dres = Ok("UInt64")

====
